---- MODULE Spec2Model ----
(***************************************************************************)
(* Data retrieval and caching of the Streamlit dashboard pages             *)
(* (Fornecedor, Estoque, Pedidos, Pedidos_Venda, Produto, Página_Inicial). *)
(*                                                                         *)
(* The module holds four state machines over one set of variables; each    *)
(* specification moves only the variables of its own machine:              *)
(*   SpecFetch  the sequential page-fetch loops                            *)
(*   SpecPar    Estoque.fetch_all_pages, all offset windows in flight      *)
(*   SpecCache  st.cache_data stacked on a module-level TTLCache           *)
(*   SpecSync   Página_Inicial's SQLite mirror and its watermark           *)
(***************************************************************************)
EXTENDS Integers, Sequences, FiniteSets, TLC

VARIABLES
    \* ---- sequential page fetch (SpecFetch)
    variant,      \* which loop runs: "Fornecedor", "Client", "PaginaInicial"
    table_rows,   \* number of remote rows matching the filter (static table)
    limit,        \* page size (limit / page_size)
    max_pages,    \* page ceiling (used by Fornecedor only)
    pc,           \* "loop" while paging, "done" once the fetch returned
    page,         \* Fornecedor: loop index of range(max_pages)
    offset,       \* Client, PaginaInicial: offset of the next request
    all_data,     \* rows accumulated so far
    attempt,      \* attempt number of the page request in flight (1-based)
    requests,     \* log: one record [off, got] per page request, got = -1 on failure
    http_calls,   \* log: number of HTTP attempts issued
    result,       \* rows of the snapshot handed to the caller once pc = "done"
    \* ---- concurrent page fetch (SpecPar)
    par_rows,     \* number of remote rows
    par_limit,    \* page size
    par_pages,    \* max_pages: number of offset windows launched
    par_pending,  \* offsets whose task has not been consumed from as_completed
    par_data,     \* all_data of Estoque.fetch_all_pages
    par_pc,       \* "gather" | "done"
    par_failed,   \* offsets whose request raised after its retries
    \* ---- freshness cache (SpecCache)
    app,          \* the page whose cache configuration is used
    persists,     \* TRUE: module objects outlive a script run (page imported)
    now,          \* wall clock, in ticks of 30 seconds
    st_cache,     \* st.cache_data: key -> entry [snap, at] or NoEntry
    ttl_cache,    \* module-level TTLCache: sequence of [key, snap, at], oldest first
    last_reload,  \* st.session_state.last_reload, or -1 when not set
    stored,       \* ghost: key -> what st.cache_data was last given for the key
    last,         \* ghost: what the step just taken did, when it was a Get
    reload_log,   \* ghost: what the step just taken did, when it was a call of
                  \*   auto_reload, and when the session last reloaded
    \* ---- SQLite mirror (SpecSync)
    remote,       \* remote table PCPEDC: NUMPED -> DATA_PEDIDO (day number) or NoRow
    mirror,       \* local table PCPEDC: NUMPED -> DATA_PEDIDO or NoRow
    memory,       \* self._memory_cache of the connection in use
    sync_log,     \* ghost: what the last sync did
    \* ---- reshaping of the fetched rows (SpecShape)
    sh_app,       \* the page whose fetch function reshapes
    sh_cols,      \* the columns the fetched rows carry
    sh_in,        \* ghost: the rows as fetched
    sh_rows,      \* the frame df being reshaped, then the one stored / returned
    sh_step,      \* position in the page's pipeline (1-based)
    sh_state,     \* "run" | "done" (the function returned) | "raised"
    sh_ui,        \* kinds of st.* messages shown: "error", "warning"
    sh_log,       \* what logger.warning / logger.error recorded
    \* ---- one run of a page script (SpecPage)
    pg_app,       \* the page
    pg_url,       \* st.secrets["SUPABASE_URL"]: "missing", "empty" or "set"
    pg_key,       \* st.secrets["SUPABASE_KEY"]: "missing", "empty" or "set"
    pg_t1,        \* first table of the page: "none" (no rows), "nomatch" (rows,
                  \*   none in the page's window), "rows" (rows in the window)
    pg_t2,        \* second table of the page (Estoque, Pedidos), same values
    pg_mirror,    \* Página_Inicial: the SQLite file holds rows of an earlier run
    pg_pc,        \* "startup" | "main" | "end" | "stopped" (st.stop) | "raised"
    pg_ui,        \* kinds of st.* messages shown: "error", "warning", "info"
    pg_requests,  \* operations of the run that sent requests to the backend
    pg_rendered,  \* the page drew its data
    \* ---- threads of one SupabaseConnection (SpecThreads)
    th_main,      \* script thread: "new" | "fetch" | "update" | "memory" | "done"
    th_bg,        \* _background_sync thread: "none" | "check" | "fetch" |
                  \*   "update" | "memory" | "sleep"
    th_now,       \* time.time(), in ticks of SYNC_INTERVAL seconds
    th_last_sync, \* self._last_sync, in the same ticks (0 at construction)
    th_wake,      \* when the time.sleep of the background thread ends
    th_rows,      \* the SQLite file holds rows once a sync has written
    th_cached_at, \* when st.cache_data stored the result of carregar_dados (-1: none)
    th_alive,     \* background threads alive in the process
    \* ---- the rows of the SQLite table PCPEDC (SpecUpsert)
    up_table,     \* how many rows of the table equal each possible row
    up_batch,     \* the batch update_cache wrote last
    up_again      \* ghost: the table, were the same batch written once more

fetchVars == <<variant, table_rows, limit, max_pages, pc, page, offset, all_data,
               attempt, requests, http_calls, result>>
parVars   == <<par_rows, par_limit, par_pages, par_pending, par_data, par_pc, par_failed>>
cacheVars == <<app, persists, now, st_cache, ttl_cache, last_reload, stored, last, reload_log>>
syncVars  == <<remote, mirror, memory, sync_log>>
shapeVars == <<sh_app, sh_cols, sh_in, sh_rows, sh_step, sh_state, sh_ui, sh_log>>
pageVars  == <<pg_app, pg_url, pg_key, pg_t1, pg_t2, pg_mirror, pg_pc, pg_ui,
               pg_requests, pg_rendered>>
threadVars == <<th_main, th_bg, th_now, th_last_sync, th_wake, th_rows, th_cached_at,
               th_alive>>
upsertVars == <<up_table, up_batch, up_again>>
vars      == <<fetchVars, parVars, cacheVars, syncVars, shapeVars, pageVars, threadVars,
               upsertVars>>

\* What the actions of one machine leave alone.
otherThanFetch == <<parVars, cacheVars, syncVars, shapeVars, pageVars, threadVars,
                   upsertVars>>
otherThanPar   == <<fetchVars, cacheVars, syncVars, shapeVars, pageVars, threadVars,
                   upsertVars>>
otherThanCache == <<fetchVars, parVars, syncVars, shapeVars, pageVars, threadVars,
                   upsertVars>>
otherThanSync  == <<fetchVars, parVars, cacheVars, shapeVars, pageVars, threadVars,
                   upsertVars>>
otherThanShape == <<fetchVars, parVars, cacheVars, syncVars, pageVars, threadVars,
                   upsertVars>>
otherThanPage  == <<fetchVars, parVars, cacheVars, syncVars, shapeVars, threadVars,
                   upsertVars>>
otherThanThreads == <<fetchVars, parVars, cacheVars, syncVars, shapeVars, pageVars,
                   upsertVars>>
otherThanUpsert == <<fetchVars, parVars, cacheVars, syncVars, shapeVars, pageVars,
                    threadVars>>

Min(a, b) == IF a < b THEN a ELSE b
Max(a, b) == IF a > b THEN a ELSE b

(***************************************************************************)
(* Bounds of the model                                                     *)
(***************************************************************************)
MaxRows  == 5   \* remote tables hold 0..MaxRows matching rows
MaxLimit == 2   \* page sizes 1..MaxLimit
MaxPages == 3   \* page ceilings 1..MaxPages

(***************************************************************************)
(* The remote table and one page request                                   *)
(***************************************************************************)
\* The Range header of one page request: first and last row index (0-based).
RangeHeader_OffByOne(off, lim) == <<off, off + lim>>
RangeHeader(off, lim) == <<off, off + lim - 1>>

\* The rows the backend returns for a Range over a static table of n rows.
\* Rows are numbered 1..n in the server's order; row i has index i - 1.
PageRows(n, range) ==
    LET first == range[1]
        lastIx == Min(range[2], n - 1)
    IN  [i \in 1..Max(0, lastIx - first + 1) |-> first + i]

\* Attempts made for one page request before its failure reaches the loop.
MaxAttempts_Four(v) == 4
MaxAttempts(v) ==
    CASE v = "Fornecedor"    -> 3    \* tenacity stop_after_attempt(3)
      [] v = "Vendedores"    -> 3    \* backoff.on_exception(max_tries=3)
      [] v = "PaginaInicial" -> 4    \* urllib3 Retry(total=3): one try and three retries
      [] OTHER               -> 1    \* supabase client, no retry

\* if not data: break
EmptyPage(data) == data = <<>>

\* if len(data) < limit: break
ShortPage_EmptyOnly(data, lim) == Len(data) = 0
ShortPage(data, lim) == Len(data) < lim

\* The Supabase-client loops leave only on an empty page.
ClientBreak_OnShort(data, lim) == Len(data) < lim
ClientBreak(data, lim) == EmptyPage(data)

Variants == {"Fornecedor", "Client", "PaginaInicial", "Vendedores"}

\* One attempt of the request in flight fails and the retry policy tries again.
RetryAttempt ==
    /\ pc = "loop"
    /\ attempt < MaxAttempts(variant)
    /\ attempt' = attempt + 1
    /\ http_calls' = http_calls + 1
    /\ UNCHANGED <<variant, table_rows, limit, max_pages, pc, page, offset,
                   all_data, requests, result>>
    /\ UNCHANGED otherThanFetch

\* for page in range(max_pages): the loop ends when the range is exhausted.
FornecedorAdvance(stop, data) ==
    LET over == stop \/ page + 1 >= max_pages
    IN  /\ page' = IF stop THEN page ELSE page + 1
        /\ pc' = IF over THEN "done" ELSE "loop"
        /\ result' = IF over THEN all_data \o data ELSE result

\* Fornecedor.fetch_all_pages: one iteration whose request succeeds.
FornecedorPageOk ==
    /\ variant = "Fornecedor" /\ pc = "loop"
    /\ LET off  == page * limit
           data == PageRows(table_rows, RangeHeader(off, limit))
       IN  /\ all_data' = all_data \o data
           /\ requests' = Append(requests, [off |-> off, got |-> Len(data), tries |-> attempt])
           /\ FornecedorAdvance(EmptyPage(data) \/ ShortPage(data, limit), data)
    /\ attempt' = 1
    /\ http_calls' = http_calls + 1
    /\ UNCHANGED <<variant, table_rows, limit, max_pages, offset>>
    /\ UNCHANGED otherThanFetch

\* Fornecedor.fetch_all_pages: the request raised after its last attempt;
\* the except branch logs and continues with the next page.
FornecedorPageFail ==
    /\ variant = "Fornecedor" /\ pc = "loop"
    /\ attempt = MaxAttempts(variant)
    /\ requests' = Append(requests, [off |-> page * limit, got |-> -1, tries |-> attempt])
    /\ FornecedorAdvance(FALSE, <<>>)
    /\ attempt' = 1
    /\ http_calls' = http_calls + 1
    /\ UNCHANGED <<variant, table_rows, limit, max_pages, offset, all_data>>
    /\ UNCHANGED otherThanFetch

\* Pedidos_Venda.fetch_pedidos (and the same loop in Produto.carregar_dados and
\* Pedidos.get_data_from_supabase): one iteration whose request succeeds.
ClientPageOk ==
    /\ variant = "Client" /\ pc = "loop"
    /\ LET data == PageRows(table_rows, RangeHeader(offset, limit))
           stop == ClientBreak(data, limit)
       IN  /\ all_data' = all_data \o data
           /\ requests' = Append(requests, [off |-> offset, got |-> Len(data), tries |-> attempt])
           /\ offset' = IF stop THEN offset ELSE offset + limit
           /\ pc' = IF stop THEN "done" ELSE "loop"
           /\ result' = IF stop THEN all_data \o data ELSE result
    /\ attempt' = 1
    /\ http_calls' = http_calls + 1
    /\ UNCHANGED <<variant, table_rows, limit, max_pages, page>>
    /\ UNCHANGED otherThanFetch

\* The request raised: the exception leaves the loop and the function returns
\* an empty frame from its except branch.
ClientPageFail ==
    /\ variant = "Client" /\ pc = "loop"
    /\ attempt = MaxAttempts(variant)
    /\ requests' = Append(requests, [off |-> offset, got |-> -1, tries |-> attempt])
    /\ pc' = "done"
    /\ result' = <<>>
    /\ attempt' = 1
    /\ http_calls' = http_calls + 1
    /\ UNCHANGED <<variant, table_rows, limit, max_pages, page, offset, all_data>>
    /\ UNCHANGED otherThanFetch

\* Página_Inicial fetch_new_data: one iteration whose request succeeds.
PaginaInicialPageOk ==
    /\ variant = "PaginaInicial" /\ pc = "loop"
    /\ LET data == PageRows(table_rows, RangeHeader(offset, limit))
           stop == EmptyPage(data) \/ ShortPage(data, limit)
       IN  /\ all_data' = all_data \o data
           /\ requests' = Append(requests, [off |-> offset, got |-> Len(data), tries |-> attempt])
           /\ offset' = offset + Len(data)
           /\ pc' = IF stop THEN "done" ELSE "loop"
           /\ result' = IF stop THEN all_data \o data ELSE result
    /\ attempt' = 1
    /\ http_calls' = http_calls + 1
    /\ UNCHANGED <<variant, table_rows, limit, max_pages, page>>
    /\ UNCHANGED otherThanFetch

\* The request raised RequestException (the retries ran out, or the status is
\* one raise_for_status rejects and the Retry policy does not retry): return
\* all_data as it stands.
PaginaInicialPageFail_Restart ==
    /\ variant = "PaginaInicial" /\ pc = "loop"
    /\ requests' = <<>> /\ all_data' = <<>> /\ offset' = 0 /\ attempt' = 1
    /\ http_calls' = 0
    /\ UNCHANGED <<variant, table_rows, limit, max_pages, page, pc, result>>
    /\ UNCHANGED otherThanFetch
PaginaInicialPageFail ==
    /\ variant = "PaginaInicial" /\ pc = "loop"
    /\ requests' = Append(requests, [off |-> offset, got |-> -1, tries |-> attempt])
    /\ pc' = "done"
    /\ result' = all_data
    /\ attempt' = 1
    /\ http_calls' = http_calls + 1
    /\ UNCHANGED <<variant, table_rows, limit, max_pages, page, offset, all_data>>
    /\ UNCHANGED otherThanFetch

\* Vendedores.carregar_dados: one query without a Range, answered with the
\* whole table.
VendedoresOk ==
    /\ variant = "Vendedores" /\ pc = "loop"
    /\ LET data == PageRows(table_rows, <<0, table_rows - 1>>)
       IN  /\ all_data' = data
           /\ requests' = Append(requests, [off |-> 0, got |-> Len(data), tries |-> attempt])
           /\ result' = data
    /\ pc' = "done"
    /\ attempt' = 1
    /\ http_calls' = http_calls + 1
    /\ UNCHANGED <<variant, table_rows, limit, max_pages, page, offset>>
    /\ UNCHANGED otherThanFetch

\* The query raised on its last try: except Exception returns an empty frame.
VendedoresFail ==
    /\ variant = "Vendedores" /\ pc = "loop"
    /\ attempt = MaxAttempts(variant)
    /\ requests' = Append(requests, [off |-> 0, got |-> -1, tries |-> attempt])
    /\ pc' = "done"
    /\ result' = <<>>
    /\ attempt' = 1
    /\ http_calls' = http_calls + 1
    /\ UNCHANGED <<variant, table_rows, limit, max_pages, page, offset, all_data>>
    /\ UNCHANGED otherThanFetch

FetchInit ==
    /\ variant \in Variants
    /\ table_rows \in 0..MaxRows
    /\ limit \in 1..MaxLimit
    /\ max_pages \in 1..MaxPages
    /\ pc = "loop"
    /\ page = 0
    /\ offset = 0
    /\ all_data = <<>>
    /\ attempt = 1
    /\ requests = <<>>
    /\ http_calls = 0
    /\ result = <<>>

\* The values the fetch variables keep while another machine runs.
FetchIdle ==
    /\ variant = "Client" /\ table_rows = 0 /\ limit = 1 /\ max_pages = 1
    /\ pc = "done" /\ page = 0 /\ offset = 0 /\ all_data = <<>> /\ attempt = 1
    /\ requests = <<>> /\ http_calls = 0 /\ result = <<>>

FetchNext ==
    \/ RetryAttempt
    \/ FornecedorPageOk
    \/ FornecedorPageFail
    \/ ClientPageOk
    \/ ClientPageFail
    \/ PaginaInicialPageOk
    \/ PaginaInicialPageFail
    \/ VendedoresOk
    \/ VendedoresFail

(***************************************************************************)
(* Estoque.fetch_all_pages: every offset window requested at once, the     *)
(* answers consumed in completion order (asyncio.as_completed)             *)
(***************************************************************************)
\* range(0, limit * max_pages, limit)
ParOffsets(lim, pages) == {p * lim : p \in 0..(pages - 1)}

\* The loop over as_completed ends when no task is left.
ParAfter(left) == IF left = {} THEN "done" ELSE "gather"

\* The next completed task holds a page: extend all_data, or break when empty.
ParComplete(o) ==
    /\ par_pc = "gather"
    /\ o \in par_pending
    /\ LET data == PageRows(par_rows, RangeHeader(o, par_limit))
       IN  IF ~EmptyPage(data)
           THEN /\ par_data' = par_data \o data
                /\ par_pc' = ParAfter(par_pending \ {o})
           ELSE /\ par_data' = par_data
                /\ par_pc' = "done"
    /\ par_pending' = par_pending \ {o}
    /\ UNCHANGED <<par_rows, par_limit, par_pages, par_failed>>
    /\ UNCHANGED otherThanPar

\* The next completed task raised after its retries: log and continue.
ParFail(o) ==
    /\ par_pc = "gather"
    /\ o \in par_pending
    /\ par_failed' = par_failed \cup {o}
    /\ par_pending' = par_pending \ {o}
    /\ par_pc' = ParAfter(par_pending \ {o})
    /\ UNCHANGED <<par_rows, par_limit, par_pages, par_data>>
    /\ UNCHANGED otherThanPar

ParInit ==
    /\ par_rows \in 0..MaxRows
    /\ par_limit \in 1..MaxLimit
    /\ par_pages \in 1..MaxPages
    /\ par_pending = ParOffsets(par_limit, par_pages)
    /\ par_data = <<>>
    /\ par_pc = "gather"
    /\ par_failed = {}

ParIdle ==
    /\ par_rows = 0 /\ par_limit = 1 /\ par_pages = 1 /\ par_pending = {}
    /\ par_data = <<>> /\ par_pc = "done" /\ par_failed = {}

ParNext ==
    \/ \E o \in par_pending : ParComplete(o)
    \/ \E o \in par_pending : ParFail(o)


(***************************************************************************)
(* Freshness cache: @st.cache_data(ttl=...) around a function that looks   *)
(* its key up in a module-level cachetools.TTLCache                        *)
(***************************************************************************)
MaxTime == 10   \* the clock runs from 0 to MaxTime ticks

Apps == {"Estoque", "Fornecedor", "Pedidos", "Pedidos_Venda", "Produto"}
Keys == {"window_a", "window_b"}   \* (table, data_inicial, data_final) keys
NoEntry == [none |-> TRUE]
NoGet == [none |-> TRUE]

\* Seconds to clock ticks (every period of the pages is a multiple of 30 s).
Ticks(seconds) == seconds \div 30

\* ttl of @st.cache_data
StTTL(a) ==
    Ticks(CASE a = "Estoque"       -> 180
            [] a = "Fornecedor"    -> 300
            [] a = "Pedidos"       -> 120
            [] a = "Pedidos_Venda" -> 60
            [] a = "Produto"       -> 60)

\* ttl of the module-level TTLCache (Produto has none)
CacheTTL(a) ==
    Ticks(CASE a = "Estoque"       -> 180
            [] a = "Fornecedor"    -> 300
            [] a = "Pedidos"       -> 120
            [] a = "Pedidos_Venda" -> 300
            [] a = "Produto"       -> 0)

\* maxsize of the module-level TTLCache (0: the page has none)
CacheMaxSize(a) ==
    CASE a = "Estoque"       -> 1
      [] a = "Fornecedor"    -> 1
      [] a = "Pedidos"       -> 1
      [] a = "Pedidos_Venda" -> 10
      [] a = "Produto"       -> 0

\* period of auto_reload (0: the page has no auto_reload)
ReloadEvery(a) ==
    Ticks(CASE a = "Fornecedor" -> 30
            [] a = "Pedidos"    -> 60
            [] a = "Produto"    -> 60
            [] OTHER            -> 0)

\* Whether the except branch of the fetch stores the empty frame in the TTLCache
\* (Pedidos_Venda and Produto only return it).
StoresFailure(a) == a \in {"Estoque", "Fornecedor", "Pedidos"}

\* An entry stored at time at with time-to-live ttl is served while t < at + ttl.
Live_OneTickShort(at, ttl, t) == t + 1 < at + ttl
Live(at, ttl, t) == t < at + ttl

\* TTLCache: the live entries, oldest first (expire()).
RECURSIVE Expire(_, _, _)
Expire(c, ttl, t) ==
    IF c = <<>> THEN <<>>
    ELSE IF Live(Head(c).at, ttl, t)
         THEN <<Head(c)>> \o Expire(Tail(c), ttl, t)
         ELSE Expire(Tail(c), ttl, t)

RECURSIVE Without(_, _)
Without(c, k) ==
    IF c = <<>> THEN <<>>
    ELSE IF Head(c).key = k THEN Without(Tail(c), k)
         ELSE <<Head(c)>> \o Without(Tail(c), k)

\* key in _cache
CacheHas(c, a, k, t) == \E i \in 1..Len(c) : c[i].key = k /\ Live(c[i].at, CacheTTL(a), t)

\* _cache[key]
CacheGet_Newest(c, k) == c[Len(c)].snap
CacheGet(c, k) == c[CHOOSE i \in 1..Len(c) : c[i].key = k].snap

\* _cache[key] = value: expired entries go, the key moves to the newest place,
\* and the oldest entries are dropped while the cache is over maxsize.
CacheSet(c, a, k, snap, t) ==
    LET kept == Without(Expire(c, CacheTTL(a), t), k)
        room == CacheMaxSize(a) - 1
        cut  == IF Len(kept) > room THEN SubSeq(kept, Len(kept) - room + 1, Len(kept))
                ELSE kept
    IN  IF CacheMaxSize(a) = 0 THEN <<>>
        ELSE cut \o <<[key |-> k, snap |-> snap, at |-> t]>>


\* The snapshot a network fetch for key k returns at time t; ok is FALSE when
\* the fetch failed and the function went through its except branch.
Fetched(k, t, ok) == [key |-> k, t |-> t, ok |-> ok]

\* Ghost values of stored[k] besides an entry [snap, at].
Never    == [state |-> "never"]      \* st.cache_data was never given the key
Expired  == [state |-> "expired"]    \* the entry is StTTL old or older
Reloaded == [state |-> "reloaded"]   \* an auto-reload cleared it, no Get since
IsEntry(g) == g \notin {Never, Expired, Reloaded}

\* The step just taken was no call of auto_reload, and the session has not
\* reloaded yet.
NoReload == [at |-> -1, before |-> -1, did |-> FALSE, cleared |-> FALSE, prev |-> -1]

\* What the log keeps once the step after the call is taken: the time of the
\* latest reload of the session.
Forget(l) == [NoReload EXCEPT !.prev = IF l.did THEN l.at ELSE l.prev]

\* One call of the cached function for key k (fetch_supabase_data,
\* get_data_from_supabase, fetch_pedidos, carregar_dados); ok is the outcome of
\* the network fetch, should one be issued.
\*   st.cache_data serves a live entry without running the function;
\*   otherwise the function runs: "if key in _cache: return _cache[key]",
\*   else it fetches, stores and returns, and st.cache_data keeps what it returned.
Get(k, ok) ==
    LET e      == st_cache[k]
        stHit  == e # NoEntry /\ Live(e.at, StTTL(app), now)
        inHit  == ~stHit /\ CacheHas(ttl_cache, app, k, now)
        fetch  == ~stHit /\ ~inHit
        snap   == Fetched(k, now, ok)
        ret    == IF stHit THEN e.snap
                  ELSE IF inHit THEN CacheGet(ttl_cache, k)
                  ELSE snap
    IN  /\ fetch \/ ok
        /\ st_cache' = IF stHit THEN st_cache
                       ELSE [st_cache EXCEPT ![k] = [snap |-> ret, at |-> now]]
        /\ ttl_cache' = IF fetch /\ (ok \/ StoresFailure(app))
                        THEN CacheSet(ttl_cache, app, k, snap, now)
                        ELSE ttl_cache
        /\ last' = [key |-> k, fetched |-> fetch, ret |-> ret, was |-> stored[k]]
        /\ stored' = IF stHit THEN stored
                     ELSE [stored EXCEPT ![k] = [snap |-> ret, at |-> now]]
        /\ reload_log' = Forget(reload_log)
        /\ UNCHANGED <<app, persists, now, last_reload>>
        /\ UNCHANGED otherThanCache

\* if current_time - st.session_state.last_reload >= N
ReloadDue_Always(lr, t, a) == TRUE
ReloadDue(lr, t, a) == t - lr >= ReloadEvery(a)

\* auto_reload(): the first call sets session_state.last_reload; a call made
\* ReloadEvery or more after it clears st.cache_data and reruns the script.
\* A rerun of a page that is itself the script builds its module objects anew.
AutoReload ==
    /\ ReloadEvery(app) > 0
    /\ LET lr == IF last_reload = -1 THEN now ELSE last_reload
       IN  /\ IF ReloadDue(lr, now, app)
              THEN /\ last_reload' = now
                   /\ st_cache' = [k \in Keys |-> NoEntry]
                   /\ ttl_cache' = IF persists THEN ttl_cache ELSE <<>>
                   /\ stored' = [k \in Keys |-> Reloaded]
              ELSE /\ last_reload' = lr
                   /\ UNCHANGED <<st_cache, ttl_cache, stored>>
           /\ reload_log' = [at |-> now, before |-> last_reload,
                             did |-> ReloadDue(lr, now, app),
                             cleared |-> st_cache' = [k \in Keys |-> NoEntry],
                             prev |-> Forget(reload_log).prev]
    /\ last' = NoGet
    /\ UNCHANGED <<app, persists, now>>
    /\ UNCHANGED otherThanCache

\* A new run of a page that is itself the script: "cache = TTLCache(...)" at
\* module level runs again.
ScriptRun ==
    /\ ~persists
    /\ ttl_cache' = <<>>
    /\ last' = NoGet
    /\ reload_log' = Forget(reload_log)
    /\ UNCHANGED <<app, persists, now, st_cache, last_reload, stored>>
    /\ UNCHANGED otherThanCache

\* Time passes by one tick. Entries that reach their time-to-live are dropped
\* here; both caches drop them no later than their next use, and never serve
\* them in between. A script run ends within the tick it started in, so where
\* the page is itself the script the next Get meets a TTLCache built anew.
Tick ==
    /\ now < MaxTime
    /\ now' = now + 1
    /\ st_cache' = [k \in Keys |->
                      IF st_cache[k] # NoEntry /\ ~Live(st_cache[k].at, StTTL(app), now + 1)
                      THEN NoEntry ELSE st_cache[k]]
    /\ ttl_cache' = IF persists THEN Expire(ttl_cache, CacheTTL(app), now + 1) ELSE <<>>
    /\ stored' = [k \in Keys |->
                    IF IsEntry(stored[k]) /\ now + 1 - stored[k].at >= StTTL(app)
                    THEN Expired ELSE stored[k]]
    /\ last' = NoGet
    /\ reload_log' = Forget(reload_log)
    /\ UNCHANGED <<app, persists, last_reload>>
    /\ UNCHANGED otherThanCache

CacheInit ==
    /\ app \in Apps
    /\ persists \in BOOLEAN
    /\ now = 0
    /\ st_cache = [k \in Keys |-> NoEntry]
    /\ ttl_cache = <<>>
    /\ last_reload = -1
    /\ stored = [k \in Keys |-> Never]
    /\ last = NoGet
    /\ reload_log = NoReload

CacheIdle ==
    /\ app = "Produto" /\ persists = TRUE /\ now = 0
    /\ st_cache = [k \in Keys |-> NoEntry] /\ ttl_cache = <<>>
    /\ last_reload = -1 /\ stored = [k \in Keys |-> Never] /\ last = NoGet
    /\ reload_log = NoReload

CacheNext ==
    \/ \E k \in Keys : Get(k, TRUE)
    \/ \E k \in Keys : Get(k, FALSE)
    \/ AutoReload
    \/ ScriptRun
    \/ Tick

(***************************************************************************)
(* Página_Inicial: the SQLite mirror of PCPEDC and its watermark           *)
(***************************************************************************)
MaxDay == 16         \* DATA_PEDIDO values are days since 1970-01-01, up to MaxDay
WindowDays == 7      \* timedelta(days=7)

Orders == {"ped_1", "ped_2"}          \* NUMPED values
Days == {MaxDay - 8, MaxDay - 1, MaxDay}
NoRow == -1          \* the table has no row for the NUMPED
NoWatermark == 0     \* "1970-01-01T00:00:00Z": the request carries no date filter

\* SELECT MAX(DATA_PEDIDO) FROM PCPEDC (NoRow when the table is empty)
MaxDataPedido(m) ==
    IF \A n \in Orders : m[n] = NoRow THEN NoRow
    ELSE CHOOSE d \in Days : (\E n \in Orders : m[n] = d) /\ (\A n \in Orders : m[n] <= d)

\* _get_latest_timestamp: the newest mirrored date less the 7-day window.
LatestTimestamp_NoWindow(m) ==
    IF MaxDataPedido(m) = NoRow THEN NoWatermark
    ELSE MaxDataPedido(m)
LatestTimestamp(m) ==
    IF MaxDataPedido(m) = NoRow THEN NoWatermark
    ELSE MaxDataPedido(m) - WindowDays

\* The rows the request of fetch_new_data matches: all of them, or those with
\* DATA_PEDIDO >= the watermark.
Matching(r, wm) ==
    {n \in Orders : r[n] # NoRow /\ (wm = NoWatermark \/ r[n] >= wm)}

\* What a fetch can return of the matching rows: all of them, or a leading part
\* when a page request failed. With the date filter the rows come ordered by
\* DATA_PEDIDO; without it the order is the server's.
Prefixes(r, wm) ==
    {s \in SUBSET Matching(r, wm) :
        wm # NoWatermark => \A a \in s, b \in Matching(r, wm) \ s : r[a] <= r[b]}

\* update_cache: INSERT OR REPLACE of every fetched record, keyed by NUMPED.
UpdateCache(m, r, got) == [n \in Orders |-> IF n \in got THEN r[n] ELSE m[n]]

\* A table without rows, an empty frame.
EmptyTable == [n \in Orders |-> NoRow]

\* self._memory_cache = None
NoMemory == [set |-> FALSE, rows |-> EmptyTable]

\* _update_memory_cache: the frame load_from_cache returns replaces the memory
\* cache unless it is empty.
UpdateMemory(mem, m) == IF m = EmptyTable THEN mem ELSE [set |-> TRUE, rows |-> m]

\* "data = self._memory_cache if self._memory_cache is not None else
\* self.load_from_cache()", on the normal path and in the except branch.
Held_Nothing(mem, m) == EmptyTable
Held(mem, m) == IF mem.set THEN mem.rows ELSE m

\* sync_data: fetch_new_data, update_cache, _update_memory_cache.
Sync(got) ==
    /\ got \in Prefixes(remote, LatestTimestamp(mirror))
    /\ mirror' = UpdateCache(mirror, remote, got)
    /\ memory' = UpdateMemory(memory, mirror')
    /\ sync_log' = [failed |-> FALSE, was |-> mirror, mem |-> memory,
                    ret |-> Held(memory', mirror'), error |-> FALSE,
                    after_partial |-> /\ ~sync_log.failed /\ ~sync_log.complete
                                      /\ sync_log.table = remote,
                    before |-> LatestTimestamp(mirror),
                    after |-> LatestTimestamp(mirror'),
                    complete |-> got = Matching(remote, LatestTimestamp(mirror)),
                    newest |-> MaxDataPedido(mirror),
                    filtered |-> LatestTimestamp(mirror) # NoWatermark,
                    requested |-> Matching(remote, LatestTimestamp(mirror)),
                    table |-> remote]
    /\ UNCHANGED remote
    /\ UNCHANGED otherThanSync

\* sync_data raises before update_cache writes (a ValueError of float() / int()
\* while the batch is built, or an exception other than RequestException in
\* fetch_new_data): the except branch returns the memory cache, else the rows of
\* the SQLite file, and shows st.error when it has none to return.
SyncRaise ==
    /\ sync_log' = [failed |-> TRUE, was |-> mirror, mem |-> memory,
                    ret |-> Held(memory, mirror),
                    error |-> Held(memory, mirror) = EmptyTable,
                    after_partial |-> FALSE,
                    before |-> LatestTimestamp(mirror),
                    after |-> LatestTimestamp(mirror),
                    complete |-> FALSE,
                    newest |-> MaxDataPedido(mirror),
                    filtered |-> LatestTimestamp(mirror) # NoWatermark,
                    requested |-> Matching(remote, LatestTimestamp(mirror)),
                    table |-> remote]
    /\ UNCHANGED <<remote, mirror, memory>>
    /\ UNCHANGED otherThanSync

\* carregar_dados builds a new SupabaseConnection over the same SQLite file.
NewConnection ==
    /\ memory # NoMemory
    /\ memory' = NoMemory
    /\ UNCHANGED <<remote, mirror, sync_log>>
    /\ UNCHANGED otherThanSync

\* The backend inserts an order or changes the DATA_PEDIDO of one.
RemoteWrite(n, d) ==
    /\ remote[n] # d
    /\ remote' = [remote EXCEPT ![n] = d]
    /\ UNCHANGED <<mirror, memory, sync_log>>
    /\ UNCHANGED otherThanSync

SyncInit ==
    /\ remote = [n \in Orders |-> NoRow]
    /\ mirror = [n \in Orders |-> NoRow]
    /\ memory = NoMemory
    /\ sync_log = [failed |-> FALSE, was |-> [n \in Orders |-> NoRow],
                   mem |-> NoMemory, ret |-> [n \in Orders |-> NoRow],
                   error |-> FALSE, after_partial |-> FALSE,
                   before |-> NoWatermark, after |-> NoWatermark, complete |-> TRUE,
                   newest |-> NoRow, filtered |-> FALSE, requested |-> {},
                   table |-> [n \in Orders |-> NoRow]]

SyncIdle == SyncInit

SyncNext ==
    \/ \E got \in SUBSET Orders : Sync(got)
    \/ SyncRaise
    \/ NewConnection
    \/ \E n \in Orders, d \in Days : RemoteWrite(n, d)

(***************************************************************************)
(* Reshaping of the fetched rows: column check, date and number coercion,  *)
(* derived total, clamping, store                                          *)
(***************************************************************************)
MaxShapeRows == 2    \* a fetch returns 0..MaxShapeRows rows

ShapeApps == {"Estoque", "Fornecedor", "Pedidos", "Pedidos_Venda", "Produto",
              "PaginaInicial"}

\* columns_expected, reduced to the date column and the two numeric columns
ExpectedColumns == {"DATA", "QT", "PVENDA"}

\* A cell of a fetched row: a number, a text that is no number ("abc"), or null.
Num(n) == [kind |-> "num", v |-> n]
Text   == [kind |-> "text", v |-> 0]
Null   == [kind |-> "null", v |-> 0]

\* A date cell: a text that parses as a date of the window, or one that does not.
ValidDate   == [kind |-> "date", v |-> 0]
InvalidDate == [kind |-> "text", v |-> 0]
NaT         == [kind |-> "null", v |-> 0]   \* what a failed parse leaves

RawDates  == {ValidDate, InvalidDate}
RawQT     == {Num(-2), Num(3), Text}
RawPVENDA == {Num(-1), Num(5), Text}

\* A row of a frame whose rows lack the columns not in cols: the cell is null.
Masked(r, cols) ==
    [id    |-> r.id,
     DATA  |-> IF "DATA" \in cols THEN r.DATA ELSE Null,
     QT    |-> IF "QT" \in cols THEN r.QT ELSE Null,
     PVENDA |-> IF "PVENDA" \in cols THEN r.PVENDA ELSE Null,
     total |-> Null]

\* The stages each fetch function runs, in the order of its code.
Pipeline(a) ==
    CASE a = "Estoque"       -> <<"columns", "dates", "store">>
      [] a = "Fornecedor"    -> <<"columns", "dates", "numbers", "derive", "clamp", "store">>
      [] a = "Pedidos"       -> <<"columns", "dates", "numbers", "store">>
      [] a = "Pedidos_Venda" -> <<"columns", "dates", "numbers", "derive", "store">>
      [] a = "Produto"       -> <<"columns", "dates", "numbers", "store">>
      [] a = "PaginaInicial" -> <<"columns", "numbers", "derive", "store">>

Stage == IF sh_state = "run" THEN Pipeline(sh_app)[sh_step] ELSE "none"

\* missing_columns = [col for col in columns_expected if col not in df.columns]
MissingColumns_DateOnly(cols) == {"DATA"} \ cols
MissingColumns(cols) == ExpectedColumns \ cols

\* The function returns an empty frame without going further.
ReturnEmpty(ui, log) ==
    /\ sh_rows' = <<>>
    /\ sh_state' = "done"
    /\ sh_ui' = sh_ui \cup ui
    /\ sh_log' = sh_log \cup log
    /\ UNCHANGED <<sh_app, sh_cols, sh_in, sh_step>>

\* The stage is over; the next one is up.
NextStage(rows, ui, log) ==
    /\ sh_rows' = rows
    /\ sh_step' = sh_step + 1
    /\ sh_ui' = sh_ui \cup ui
    /\ sh_log' = sh_log \cup log
    /\ UNCHANGED <<sh_app, sh_cols, sh_in, sh_state>>

\* "if all_data: ... else: warning" and the check of the expected columns.
\*   Pedidos_Venda: an empty frame is stored and returned without a message;
\*     df[columns_expected] raises KeyError on a missing column, and the except
\*     branch shows st.error and returns an empty frame.
\*   Página_Inicial update_cache: "if not data: return", no column check
\*     (record.get yields None for a missing column).
ShapeColumns ==
    /\ Stage = "columns"
    /\ IF sh_rows = <<>>
       THEN IF sh_app \in {"Pedidos_Venda", "PaginaInicial"}
            THEN ReturnEmpty({}, {})
            ELSE ReturnEmpty({"warning"}, {"no_data"})
       ELSE IF sh_app # "PaginaInicial" /\ MissingColumns(sh_cols) # {}
            THEN IF sh_app = "Pedidos_Venda"
                 THEN ReturnEmpty({"error"}, {})
                 ELSE ReturnEmpty({"error"}, {"missing_columns"})
            ELSE NextStage(sh_rows, {}, {})
    /\ UNCHANGED otherThanShape

IsValidDate(r) == r.DATA = ValidDate
ParseDate(r) == [r EXCEPT !.DATA = IF r.DATA = ValidDate THEN ValidDate ELSE NaT]

\* The date column is parsed; a value that does not parse becomes null.
\*   Estoque, Pedidos: rows with a null date are filtered out, no message.
\*   Fornecedor: warning when a value is invalid, rows filtered.
\*   Produto: st.warning when a value is invalid, rows dropped.
\*   Pedidos_Venda: pd.to_datetime(errors='coerce') only: the rows stay.
ShapeDates ==
    /\ Stage = "dates"
    /\ LET parsed  == [i \in 1..Len(sh_rows) |-> ParseDate(sh_rows[i])]
           invalid == \E i \in 1..Len(sh_rows) : ~IsValidDate(sh_rows[i])
       IN  CASE sh_app = "Pedidos_Venda" ->
                  NextStage(parsed, {}, {})
             [] sh_app = "Fornecedor" ->
                  NextStage(SelectSeq(parsed, IsValidDate),
                            IF invalid THEN {"warning"} ELSE {},
                            IF invalid THEN {"invalid_date"} ELSE {})
             [] sh_app = "Produto" ->
                  NextStage(SelectSeq(parsed, IsValidDate),
                            IF invalid THEN {"warning"} ELSE {}, {})
             [] OTHER ->
                  NextStage(SelectSeq(parsed, IsValidDate), {}, {})
    /\ UNCHANGED otherThanShape

\* cast(pl.Float64, strict=False).fill_null(0) / pd.to_numeric(errors='coerce').fillna(0)
ToNumber(c) == IF c.kind = "num" THEN c ELSE Num(0)

\* Página_Inicial: float(x) if x else 0 raises ValueError on a text like "abc".
Unconvertible(r) == r.QT = Text \/ r.PVENDA = Text

\* The numeric columns are coerced; no message is shown or logged for a value
\* that was not a number. update_cache lets the ValueError of float()/int()
\* escape (it catches sqlite3.Error only): nothing is written.
ShapeNumbers ==
    /\ Stage = "numbers"
    /\ IF sh_app = "PaginaInicial" /\ \E i \in 1..Len(sh_rows) : Unconvertible(sh_rows[i])
       THEN /\ sh_state' = "raised"
            /\ sh_rows' = <<>>
            /\ UNCHANGED <<sh_app, sh_cols, sh_in, sh_step, sh_ui, sh_log>>
       ELSE NextStage([i \in 1..Len(sh_rows) |->
                          [sh_rows[i] EXCEPT !.QT = ToNumber(sh_rows[i].QT),
                                             !.PVENDA = ToNumber(sh_rows[i].PVENDA)]],
                      {}, {})
    /\ UNCHANGED otherThanShape

\* VALOR_TOTAL_ITEM = QT * PVENDA, valor_total = QT * PVENDA, vltotal = pvenda * qt
Total(r) == Num(r.QT.v * r.PVENDA.v)

ShapeDerive ==
    /\ Stage = "derive"
    /\ NextStage([i \in 1..Len(sh_rows) |-> [sh_rows[i] EXCEPT !.total = Total(sh_rows[i])]],
                 {}, {})
    /\ UNCHANGED otherThanShape

\* clip(min=0)
Clip_Identity(c) == c
Clip(c) == IF c.v < 0 THEN Num(0) ELSE c

\* Fornecedor: "if df['QT'].lt(0).any(): logger.warning(...); clip", the same for
\* PVENDA. VALOR_TOTAL_ITEM was computed before and is not recomputed.
ShapeClamp ==
    /\ Stage = "clamp"
    /\ LET negQT == \E i \in 1..Len(sh_rows) : sh_rows[i].QT.v < 0
           negPV == \E i \in 1..Len(sh_rows) : sh_rows[i].PVENDA.v < 0
       IN  NextStage([i \in 1..Len(sh_rows) |->
                         [sh_rows[i] EXCEPT !.QT = Clip(sh_rows[i].QT),
                                            !.PVENDA = Clip(sh_rows[i].PVENDA)]],
                     {},
                     (IF negQT THEN {"negative_QT"} ELSE {})
                        \cup (IF negPV THEN {"negative_PVENDA"} ELSE {}))
    /\ UNCHANGED otherThanShape

\* _cache[key] = df; return. Fornecedor warns when the frame ended up empty.
ShapeStore ==
    /\ Stage = "store"
    /\ sh_state' = "done"
    /\ sh_ui' = IF sh_app = "Fornecedor" /\ sh_rows = <<>>
                THEN sh_ui \cup {"warning"} ELSE sh_ui
    /\ sh_log' = IF sh_app = "Fornecedor" /\ sh_rows = <<>>
                 THEN sh_log \cup {"empty_after_filter"} ELSE sh_log
    /\ UNCHANGED <<sh_app, sh_cols, sh_in, sh_rows, sh_step>>
    /\ UNCHANGED otherThanShape

\* The frames of n fetched rows that carry the columns cols.
RawRows(n, cols) ==
    {[i \in 1..n |-> [Masked(s[i], cols) EXCEPT !.id = i]] :
        s \in [1..n -> [id : {0}, DATA : RawDates, QT : RawQT, PVENDA : RawPVENDA,
                        total : {Null}]]}

ShapeInit ==
    /\ sh_app \in ShapeApps
    /\ sh_cols \in SUBSET ExpectedColumns
    /\ \E n \in 0..MaxShapeRows : sh_in \in RawRows(n, sh_cols)
    /\ sh_rows = sh_in
    /\ sh_step = 1
    /\ sh_state = "run"
    /\ sh_ui = {}
    /\ sh_log = {}

ShapeIdle ==
    /\ sh_app = "Estoque" /\ sh_cols = {} /\ sh_in = <<>> /\ sh_rows = <<>>
    /\ sh_step = 1 /\ sh_state = "done" /\ sh_ui = {} /\ sh_log = {}

ShapeNext ==
    \/ ShapeColumns
    \/ ShapeDates
    \/ ShapeNumbers
    \/ ShapeDerive
    \/ ShapeClamp
    \/ ShapeStore

(***************************************************************************)
(* One run of a page script: configuration at startup, fetch, rendering    *)
(***************************************************************************)
PageApps == {"Estoque", "Pedidos", "Produto", "Vendedores", "PaginaInicial"}
Secrets == {"missing", "empty", "set"}
Tables == {"none", "nomatch", "rows"}

\* except KeyError: a secret is not in secrets.toml
SecretMissing == pg_url = "missing" \/ pg_key = "missing"

\* if not SUPABASE_URL or not SUPABASE_KEY
SecretEmpty == pg_url = "empty" \/ pg_key = "empty"

\* The run moves to position to, with the messages ui shown on top of those before.
PageEnds(to, ui, sent, rendered) ==
    /\ pg_pc' = to
    /\ pg_ui' = pg_ui \cup ui
    /\ pg_requests' = pg_requests + sent
    /\ pg_rendered' = rendered
    /\ UNCHANGED <<pg_app, pg_url, pg_key, pg_t1, pg_t2, pg_mirror>>

\* The module-level code of the page, before main().
\*   Estoque, Pedidos, Produto: st.error and st.stop on a missing or empty secret;
\*     Produto then sends a test query.
\*   Vendedores: init_supabase logs and returns None (no st message), st.stop
\*     follows; with both secrets set it sends a test query and gives up the same
\*     way when the query returns no row.
\*   Página_Inicial reads its secrets inside carregar_dados, not here.
PageStartup ==
    /\ pg_pc = "startup"
    /\ CASE pg_app = "PaginaInicial" ->
              PageEnds("main", {}, 0, FALSE)
         [] pg_app = "Vendedores" ->
              IF SecretMissing \/ SecretEmpty THEN PageEnds("stopped", {}, 0, FALSE)
              ELSE IF pg_t1 = "none" THEN PageEnds("stopped", {}, 1, FALSE)
              ELSE PageEnds("main", {}, 1, FALSE)
         [] pg_app = "Produto" ->
              IF SecretMissing \/ SecretEmpty THEN PageEnds("stopped", {"error"}, 0, FALSE)
              ELSE PageEnds("main", {}, 1, FALSE)
         [] OTHER ->
              IF SecretMissing \/ SecretEmpty THEN PageEnds("stopped", {"error"}, 0, FALSE)
              ELSE PageEnds("main", {}, 0, FALSE)
    /\ UNCHANGED otherThanPage

\* Produto.main: carregar_dados warns on an empty result, main then shows
\* st.error("Nenhum dado carregado. Verifique o Supabase.") and returns.
ProdutoMain ==
    /\ pg_app = "Produto" /\ pg_pc = "main"
    /\ IF pg_t1 = "rows"
       THEN PageEnds("end", {}, 1, TRUE)
       ELSE PageEnds("end", {"warning", "error"}, 1, FALSE)
    /\ UNCHANGED otherThanPage

\* Estoque.main: check_data_existence (first 10 rows of VWSOMELIER, no filter),
\* then the sales of the window, then the stock.
EstoqueMain ==
    /\ pg_app = "Estoque" /\ pg_pc = "main"
    /\ CASE pg_t1 = "none"    -> PageEnds("end", {"error"}, 1, FALSE)
         [] pg_t1 = "nomatch" -> PageEnds("end", {"info", "warning"}, 2, FALSE)
         [] pg_t2 # "rows"    -> PageEnds("end", {"info", "warning"}, 3, FALSE)
         [] OTHER             -> PageEnds("end", {"info"}, 3, TRUE)
    /\ UNCHANGED otherThanPage

\* Página_Inicial.main with carregar_dados and sync_data.
\*   A missing secret raises KeyError inside carregar_dados: st.error, empty frame.
\*   Otherwise the connection is built and fetch_new_data sends its request
\*   whenever the URL is one (an empty URL makes requests raise before sending);
\*   the backend answers it only when the key is set as well. A failed or empty
\*   fetch leaves the page with the rows of the SQLite file, if it has any.
\*   An empty result shows st.error in carregar_dados and again in main.
PaginaInicialMain ==
    /\ pg_app = "PaginaInicial" /\ pg_pc = "main"
    /\ IF SecretMissing
       THEN PageEnds("end", {"error"}, 0, FALSE)
       ELSE LET sent     == IF pg_url = "set" THEN 1 ELSE 0
                answered == pg_url = "set" /\ pg_key = "set"
                synced   == (answered /\ pg_t1 # "none") \/ pg_mirror
                shown    == (answered /\ pg_t1 = "rows") \/ pg_mirror
            IN  IF shown THEN PageEnds("end", {}, sent, TRUE)
                ELSE PageEnds("end", {"error"}, sent, FALSE)
    /\ UNCHANGED otherThanPage

\* Pedidos.main. get_data_from_supabase warns for a table without rows; rows
\* outside the window leave an empty frame without a message.
\*   Both frames empty: st.warning("Nenhum dado disponível para exibição.").
\*   Otherwise total_liberados, total_montados and total_faturados are assigned
\*   only under "if not data_2.empty", the left column warns when data_2 is
\*   empty, the right column returns on an inverted date range (range_ok FALSE)
\*   and warns when no ranking row is in the range, and the report at the end
\*   formats int(total_liberados) whatever data_2 is.
PedidosMain(range_ok, in_range) ==
    /\ pg_app = "Pedidos" /\ pg_pc = "main"
    /\ LET d1      == pg_t1 = "rows"     \* not data_1.empty
           d2      == pg_t2 = "rows"     \* not data_2.empty
           fetchUi == IF pg_t1 = "none" \/ pg_t2 = "none" THEN {"warning"} ELSE {}
           col1Ui  == IF d2 THEN {} ELSE {"warning"}
           col2Ui  == IF d1 /\ in_range THEN {} ELSE {"warning"}
       IN  IF ~d1 /\ ~d2
           THEN PageEnds("end", fetchUi \cup {"warning"}, 2, FALSE)
           ELSE IF ~range_ok
                THEN PageEnds("end", fetchUi \cup col1Ui \cup {"error"}, 2, d2)
                ELSE IF ~d2
                     THEN PageEnds("raised", fetchUi \cup col1Ui \cup col2Ui, 2, FALSE)
                     ELSE PageEnds("end", fetchUi \cup col1Ui \cup col2Ui, 2, TRUE)
    /\ UNCHANGED otherThanPage

PageInit ==
    /\ pg_app \in PageApps
    /\ pg_url \in Secrets
    /\ pg_key \in Secrets
    /\ pg_t1 \in Tables
    /\ pg_t2 \in Tables
    /\ pg_mirror \in BOOLEAN
    /\ pg_pc = "startup"
    /\ pg_ui = {}
    /\ pg_requests = 0
    /\ pg_rendered = FALSE

PageIdle ==
    /\ pg_app = "Produto" /\ pg_url = "set" /\ pg_key = "set"
    /\ pg_t1 = "none" /\ pg_t2 = "none" /\ pg_mirror = FALSE
    /\ pg_pc = "end" /\ pg_ui = {} /\ pg_requests = 0 /\ pg_rendered = FALSE

PageNext ==
    \/ PageStartup
    \/ ProdutoMain
    \/ EstoqueMain
    \/ PaginaInicialMain
    \/ \E range_ok \in BOOLEAN, in_range \in BOOLEAN : PedidosMain(range_ok, in_range)

(***************************************************************************)
(* Página_Inicial: the script thread and the background thread of one      *)
(* SupabaseConnection                                                      *)
(***************************************************************************)
MaxClock == 4          \* the clock runs from 1 to MaxClock ticks
MaxConnections == 3    \* connections built in the process
SYNC_INTERVAL == 300   \* seconds
CarregarDadosTTL == 900   \* seconds, @st.cache_data(ttl=900)

\* Seconds to ticks of SYNC_INTERVAL seconds.
Intervals(seconds) == seconds \div SYNC_INTERVAL

\* The positions of a thread that is inside sync_data.
InSyncData == {"fetch", "update", "memory"}

\* carregar_dados builds the connection: __init__ sets _last_sync = 0 and starts
\* the background thread; the script thread then calls supabase.sync_data().
MainStart ==
    /\ th_main = "new"
    /\ th_main' = "fetch"
    /\ th_bg' = "check"
    /\ th_last_sync' = 0
    /\ th_alive' = th_alive + 1
    /\ UNCHANGED <<th_now, th_wake, th_rows, th_cached_at>>
    /\ UNCHANGED otherThanThreads

\* sync_data, step by step: fetch_new_data, update_cache, _update_memory_cache
\* ("with self._lock": load_from_cache, and _last_sync = time.time() when the
\* file has rows). got tells whether the fetch brought rows.
SyncStep(at, got) ==
    CASE at = "fetch"  -> /\ th_rows' = th_rows
                          /\ th_last_sync' = th_last_sync
         [] at = "update" -> /\ th_rows' = (th_rows \/ got)
                             /\ th_last_sync' = th_last_sync
         [] at = "memory" -> /\ th_rows' = th_rows
                             /\ th_last_sync' = IF th_rows THEN th_now ELSE th_last_sync

AfterStep(at, exit_to) ==
    CASE at = "fetch"  -> "update"
      [] at = "update" -> "memory"
      [] at = "memory" -> exit_to

MainSync(got) ==
    /\ th_main \in InSyncData
    /\ SyncStep(th_main, got)
    /\ th_main' = AfterStep(th_main, "done")
    /\ th_cached_at' = IF th_main = "memory" THEN th_now ELSE th_cached_at
    /\ UNCHANGED <<th_bg, th_now, th_wake, th_alive>>
    /\ UNCHANGED otherThanThreads

\* _background_sync: "if time.time() - self._last_sync >= SYNC_INTERVAL:
\* self.sync_data()", then time.sleep(SYNC_INTERVAL).
Due(t, synced) == t - synced >= Intervals(SYNC_INTERVAL)

BgCheck ==
    /\ th_bg = "check"
    /\ IF Due(th_now, th_last_sync)
       THEN /\ th_bg' = "fetch"
            /\ UNCHANGED th_wake
       ELSE /\ th_bg' = "sleep"
            /\ th_wake' = th_now + Intervals(SYNC_INTERVAL)
    /\ UNCHANGED <<th_main, th_now, th_last_sync, th_rows, th_cached_at, th_alive>>
    /\ UNCHANGED otherThanThreads

BgSync(got) ==
    /\ th_bg \in InSyncData
    /\ SyncStep(th_bg, got)
    /\ th_bg' = AfterStep(th_bg, "sleep")
    /\ th_wake' = IF th_bg = "memory" THEN th_now + Intervals(SYNC_INTERVAL) ELSE th_wake
    /\ UNCHANGED <<th_main, th_now, th_cached_at, th_alive>>
    /\ UNCHANGED otherThanThreads

\* time.sleep(SYNC_INTERVAL) returns.
BgWake ==
    /\ th_bg = "sleep"
    /\ th_now >= th_wake
    /\ th_bg' = "check"
    /\ UNCHANGED <<th_main, th_now, th_last_sync, th_wake, th_rows, th_cached_at, th_alive>>
    /\ UNCHANGED otherThanThreads

ClockTick ==
    /\ th_now < MaxClock
    /\ th_now' = th_now + 1
    /\ UNCHANGED <<th_main, th_bg, th_last_sync, th_wake, th_rows, th_cached_at, th_alive>>
    /\ UNCHANGED otherThanThreads

\* A page run calls carregar_dados and st.cache_data holds no live result: the
\* function runs again and builds a new SupabaseConnection. Nothing stops the
\* thread of the connection before ("while True", daemon=True).
PageRun ==
    /\ th_main = "done"
    /\ th_alive < MaxConnections
    /\ th_cached_at = -1 \/ th_now - th_cached_at >= Intervals(CarregarDadosTTL)
    /\ th_main' = "new"
    /\ UNCHANGED <<th_bg, th_now, th_last_sync, th_wake, th_rows, th_cached_at, th_alive>>
    /\ UNCHANGED otherThanThreads

\* st.cache_data.clear() of another page's auto_reload clears the results of
\* every cached function of the process.
CacheClear ==
    /\ th_main = "done"
    /\ th_cached_at # -1
    /\ th_cached_at' = -1
    /\ UNCHANGED <<th_main, th_bg, th_now, th_last_sync, th_wake, th_rows, th_alive>>
    /\ UNCHANGED otherThanThreads

ThreadsInit ==
    /\ th_main = "new"
    /\ th_bg = "none"
    /\ th_now = 1
    /\ th_last_sync = 0
    /\ th_wake = 0
    /\ th_rows \in BOOLEAN
    /\ th_cached_at = -1
    /\ th_alive = 0

ThreadsIdle ==
    /\ th_main = "done" /\ th_bg = "none" /\ th_now = 1
    /\ th_last_sync = 0 /\ th_wake = 0 /\ th_rows = FALSE
    /\ th_cached_at = -1 /\ th_alive = 0

ThreadsNext ==
    \/ MainStart
    \/ \E got \in BOOLEAN : MainSync(got)
    \/ BgCheck
    \/ \E got \in BOOLEAN : BgSync(got)
    \/ BgWake
    \/ ClockTick
    \/ PageRun
    \/ CacheClear

(***************************************************************************)
(* Página_Inicial: update_cache writing batches into the SQLite table      *)
(* PCPEDC (NUMPED TEXT PRIMARY KEY)                                        *)
(***************************************************************************)
MaxBatch == 2        \* records in one batch: 1..MaxBatch
MaxMirrorRows == 4   \* rows the table may grow to

\* record.get('NUMPED') of a record without NUMPED (or with null)
NoNumped == "None"

\* NUMPED values of the fetched records.
Numpeds == {"ped_1", "ped_2", NoNumped}

\* The rows a record can become: its key and the rest of its columns.
UpsertRows == [numped : Numpeds, cols : 1..2]

\* Rows in the table.
RowCount(t) ==
    LET RECURSIVE Sum(_)
        Sum(rs) == IF rs = {} THEN 0
                   ELSE LET r == CHOOSE x \in rs : TRUE IN t[r] + Sum(rs \ {r})
    IN  Sum(UpsertRows)

\* INSERT OR REPLACE INTO PCPEDC: a row with the same primary key is deleted
\* first. SQLite keeps NULL keys of a TEXT PRIMARY KEY distinct from each other,
\* so a row with a NULL key replaces nothing.
InsertOrReplace(t, row) ==
    IF row.numped = NoNumped
    THEN [t EXCEPT ![row] = @ + 1]
    ELSE [r \in UpsertRows |->
            IF r = row THEN 1
            ELSE IF r.numped = row.numped THEN 0
            ELSE t[r]]

\* cursor.executemany over the batch, in order.
RECURSIVE ExecuteMany(_, _)
ExecuteMany(t, batch) ==
    IF batch = <<>> THEN t
    ELSE ExecuteMany(InsertOrReplace(t, Head(batch)), Tail(batch))

\* The batches update_cache can be given.
Batches == UNION {[1..n -> UpsertRows] : n \in 1..MaxBatch}

\* update_cache(data) for a batch whose numbers parse.
UpsertBatch(batch) ==
    /\ RowCount(ExecuteMany(up_table, batch)) <= MaxMirrorRows
    /\ up_table' = ExecuteMany(up_table, batch)
    /\ up_batch' = batch
    /\ up_again' = ExecuteMany(up_table', batch)
    /\ UNCHANGED otherThanUpsert

\* CREATE TABLE IF NOT EXISTS PCPEDC on a new file.
UpsertInit ==
    /\ up_table = [r \in UpsertRows |-> 0]
    /\ up_batch = <<>>
    /\ up_again = [r \in UpsertRows |-> 0]

UpsertIdle == UpsertInit

UpsertNext == \E batch \in Batches : UpsertBatch(batch)

(***************************************************************************)
(* Specifications                                                          *)
(***************************************************************************)
InitFetch == FetchInit /\ ParIdle /\ CacheIdle /\ SyncIdle /\ ShapeIdle /\ PageIdle /\ ThreadsIdle /\ UpsertIdle
InitPar   == ParInit /\ FetchIdle /\ CacheIdle /\ SyncIdle /\ ShapeIdle /\ PageIdle /\ ThreadsIdle /\ UpsertIdle
InitCache == CacheInit /\ FetchIdle /\ ParIdle /\ SyncIdle /\ ShapeIdle /\ PageIdle /\ ThreadsIdle /\ UpsertIdle
InitSync  == SyncInit /\ FetchIdle /\ ParIdle /\ CacheIdle /\ ShapeIdle /\ PageIdle /\ ThreadsIdle /\ UpsertIdle
InitShape == ShapeInit /\ FetchIdle /\ ParIdle /\ CacheIdle /\ SyncIdle /\ PageIdle /\ ThreadsIdle /\ UpsertIdle

SpecFetch == InitFetch /\ [][FetchNext]_vars
\* The fetch keeps running: every await and every session.get returns (timeout=30).
FetchFairness == WF_vars(FetchNext)
SpecFetchLive == InitFetch /\ [][FetchNext]_vars /\ FetchFairness
SpecPar   == InitPar /\ [][ParNext]_vars
SpecCache == InitCache /\ [][CacheNext]_vars
SpecSync  == InitSync /\ [][SyncNext]_vars
InitPage  == PageInit /\ FetchIdle /\ ParIdle /\ CacheIdle /\ SyncIdle /\ ShapeIdle /\ ThreadsIdle /\ UpsertIdle
InitThreads == ThreadsInit /\ FetchIdle /\ ParIdle /\ CacheIdle /\ SyncIdle /\ ShapeIdle /\ PageIdle /\ UpsertIdle

SpecShape == InitShape /\ [][ShapeNext]_vars
SpecPage  == InitPage /\ [][PageNext]_vars
SpecThreads == InitThreads /\ [][ThreadsNext]_vars
InitUpsert == UpsertInit /\ FetchIdle /\ ParIdle /\ CacheIdle /\ SyncIdle /\ ShapeIdle /\ PageIdle /\ ThreadsIdle
SpecUpsert == InitUpsert /\ [][UpsertNext]_vars


(***************************************************************************)
(* Properties of the sequential page fetch (SpecFetch)                     *)
(***************************************************************************)
\* The table's rows 1..n in the server's order.
AllRows(n) == [i \in 1..n |-> i]

\* No page request of this fetch failed.
NoFailure == \A i \in 1..Len(requests) : requests[i].got # -1

\* C1 as claimed: with no failed page request over a static table, every
\* sequential fetcher returns every matching row exactly once, whatever the
\* table size and the page size.
C1_EveryRowOnce_AnySize ==
    (pc = "done" /\ NoFailure) => result = AllRows(table_rows)

\* C1 as amended: the same, for Fornecedor.fetch_all_pages only while the table
\* holds at most limit * max_pages rows (its page ceiling); the two loops
\* without a ceiling return every row once for every table size.
C1_EveryRowOnce ==
    (/\ pc = "done"
     /\ NoFailure
     /\ variant = "Fornecedor" => table_rows <= limit * max_pages)
    => result = AllRows(table_rows)

\* C1's case: a fetch over several pages ended without a failure.
C1_Witness ==
    /\ pc = "done" /\ NoFailure
    /\ Len(requests) >= 3 /\ table_rows >= 3
    /\ result = AllRows(table_rows)

\* C4: without failures Fornecedor.fetch_all_pages and fetch_new_data request
\* the offsets 0, P, 2P, ... in this order, every page but the last is full, the
\* last one is short (possibly empty), and floor(N/P) + 1 requests are issued
\* whenever that number is within the page ceiling.
C4_OffsetsAndCount ==
    (/\ pc = "done"
     /\ NoFailure
     /\ variant \in {"Fornecedor", "PaginaInicial"}
     /\ variant = "Fornecedor" => (table_rows \div limit) + 1 <= max_pages)
    => /\ Len(requests) = (table_rows \div limit) + 1
       /\ \A i \in 1..Len(requests) : requests[i].off = (i - 1) * limit
       /\ \A i \in 1..(Len(requests) - 1) : requests[i].got = limit
       /\ requests[Len(requests)].got = table_rows % limit

\* C4's case: three requests of P, P and fewer than P (but some) rows.
C4_Witness ==
    /\ pc = "done" /\ NoFailure /\ variant = "Fornecedor"
    /\ Len(requests) = 3
    /\ requests[1].got = limit /\ requests[2].got = limit
    /\ requests[3].got > 0 /\ requests[3].got < limit

C8_PrefixAfterFailure ==
    (pc = "done" /\ ~NoFailure) =>
        LET f == CHOOSE i \in 1..Len(requests) :
                    /\ requests[i].got = -1
                    /\ \A j \in 1..(i - 1) : requests[j].got # -1
        IN  \E m \in 0..requests[f].off : result = AllRows(m)

\* The HTTP attempts the finished requests of the log took.
RECURSIVE TriesOf(_)
TriesOf(log) == IF log = <<>> THEN 0 ELSE log[1].tries + TriesOf(Tail(log))

\* C21: in Fornecedor (and Estoque, same decorator) fetch_supabase_page_async and
\* in Vendedores.carregar_dados a request is attempted at most 3 times, a failure
\* is reported after the third attempt only, a request that succeeded is not
\* attempted again (the HTTP calls are exactly the attempts of the requests), and
\* Fornecedor.fetch_all_pages makes at most 3 * max_pages HTTP calls.
C21_AtMostThreeAttempts ==
    variant \in {"Fornecedor", "Vendedores"} =>
        /\ attempt <= 3
        /\ \A i \in 1..Len(requests) :
              /\ requests[i].tries \in 1..3
              /\ requests[i].got = -1 => requests[i].tries = 3
        /\ http_calls = TriesOf(requests) + (attempt - 1)
        /\ variant = "Fornecedor" =>
              (Len(requests) <= max_pages /\ http_calls <= 3 * max_pages)
        /\ variant = "Vendedores" => Len(requests) <= 1

\* C21's case: a Fornecedor fetch ended after one request that succeeded on its
\* third attempt and one that failed for good.
C21_Witness ==
    /\ variant = "Fornecedor" /\ pc = "done"
    /\ \E i \in 1..Len(requests) : requests[i].got >= 0 /\ requests[i].tries = 3
    /\ \E i \in 1..Len(requests) : requests[i].got = -1
    /\ http_calls > Len(requests)

\* The most page requests a fetch over a static table of table_rows rows issues:
\* the page ceiling in Fornecedor, the full pages and up to two more elsewhere.
RequestBound ==
    IF variant = "Fornecedor" THEN max_pages ELSE (table_rows \div limit) + 2

\* C22: every fetch over a static finite table returns after a bounded number of
\* page requests, whatever requests fail (SpecFetchLive).
C22_FetchTerminates ==
    <>[](pc = "done" /\ Len(requests) <= RequestBound)

\* C22's case: a fetch returned although every one of its requests failed, after
\* as many requests as the page ceiling allows.
C22_Witness ==
    /\ pc = "done" /\ variant = "Fornecedor"
    /\ max_pages >= 2 /\ Len(requests) = max_pages
    /\ \A i \in 1..Len(requests) : requests[i].got = -1

(***************************************************************************)
(* Properties of the concurrent page fetch (SpecPar)                       *)
(***************************************************************************)
\* C9: without failures Estoque.fetch_all_pages returns, whatever the order in
\* which its requests complete, exactly the rows sequential paging of the same
\* windows returns.
C9_SameRowsAsSequential ==
    (par_pc = "done" /\ par_failed = {}) =>
        {par_data[i] : i \in 1..Len(par_data)}
            = 1..Min(par_rows, par_limit * par_pages)

(***************************************************************************)
(* Properties of the freshness cache (SpecCache)                           *)
(***************************************************************************)
\* C2: a Get for a key that st.cache_data was given less than StTTL ago, with
\* no auto-reload since, issues no network fetch and returns the snapshot
\* stored then (so a key is fetched at most once per TTL window).
C2_HitWithinTTL ==
    (last # NoGet /\ IsEntry(last.was)) =>
        (~last.fetched /\ last.ret = last.was.snap)

\* C2's case: a Get served in the last tick of its entry's time-to-live.
C2_Witness ==
    /\ last # NoGet /\ IsEntry(last.was)
    /\ StTTL(app) > 1
    /\ now - last.was.at = StTTL(app) - 1
    /\ ~last.fetched

C7_NoFailureCached ==
    /\ \A k \in Keys : st_cache[k] # NoEntry => st_cache[k].snap.ok
    /\ \A i \in 1..Len(ttl_cache) : ttl_cache[i].snap.ok
    /\ (last # NoGet /\ ~last.fetched) => last.ret.ok

C29_SnapshotMatchesKey ==
    last # NoGet => last.ret.key = last.key

\* C29's case: a Get answered without a fetch although a Get for another key
\* stored its snapshot in between.
C29_Witness ==
    /\ last # NoGet /\ ~last.fetched
    /\ \E k \in Keys \ {last.key} :
          /\ st_cache[k] # NoEntry /\ st_cache[last.key] # NoEntry
          /\ st_cache[k].at > st_cache[last.key].at

\* C23: auto_reload clears st.cache_data and reruns exactly when it is called
\* ReloadEvery or more after session_state.last_reload, and then sets last_reload
\* to the time of the call; the first call of a session only sets last_reload;
\* two reloads of a session are ReloadEvery or more apart.
C23_ReloadExactlyWhenDue ==
    reload_log.at # -1 =>
        /\ reload_log.did <=>
              (/\ reload_log.before # -1
               /\ reload_log.at - reload_log.before >= ReloadEvery(app))
        /\ reload_log.did => (reload_log.cleared /\ last_reload = reload_log.at)
        /\ (~reload_log.did /\ reload_log.before # -1) => last_reload = reload_log.before
        /\ reload_log.before = -1 => last_reload = reload_log.at
        /\ (reload_log.did /\ reload_log.prev # -1) =>
              reload_log.at - reload_log.prev >= ReloadEvery(app)

\* C23's case: the second reload of a session.
C23_Witness ==
    reload_log.at # -1 /\ reload_log.did /\ reload_log.prev # -1

(***************************************************************************)
(* Properties of the SQLite mirror (SpecSync)                              *)
(***************************************************************************)
\* C6: the watermark (_get_latest_timestamp) after a sync that fetched every
\* matching row is never lower than the watermark before it.
C6_WatermarkMonotone ==
    sync_log.complete => sync_log.after >= sync_log.before

\* C20 as stated: once the mirror holds rows, fetch_new_data requests only rows
\* newer than the maximum DATA_PEDIDO of the mirror.
C20_OnlyNewerThanMax ==
    sync_log.newest # NoRow =>
        \A n \in sync_log.requested : sync_log.table[n] > sync_log.newest

\* C20 amended: once the mirror holds rows, fetch_new_data requests exactly the
\* rows whose DATA_PEDIDO is at or after the maximum DATA_PEDIDO of the mirror
\* less 7 days; while the mirror is empty the request carries no date filter and
\* asks for every row.
C20_RequestsFromWindow ==
    IF sync_log.newest = NoRow
    THEN /\ ~sync_log.filtered
         /\ sync_log.requested = {n \in Orders : sync_log.table[n] # NoRow}
    ELSE /\ sync_log.filtered
         /\ sync_log.requested =
                {n \in Orders : /\ sync_log.table[n] # NoRow
                                /\ sync_log.table[n] >= sync_log.newest - WindowDays}

\* A refresh over a mirror with rows that asked again for a row no newer than the
\* mirror's maximum, and left out a row older than the window.
C20_Witness ==
    /\ sync_log.newest # NoRow
    /\ \E n \in sync_log.requested : sync_log.table[n] <= sync_log.newest
    /\ \E n \in Orders \ sync_log.requested : sync_log.table[n] # NoRow

\* C25: a sync_data that failed with an exception left the mirror as it was and
\* returned the memory cache if one was set, else the rows of the mirror; what it
\* returned is empty only when no memory cache was set and the mirror is empty,
\* and only then is an error shown.
C25_FailedSyncReturnsHeld ==
    sync_log.failed =>
        /\ mirror = sync_log.was
        /\ sync_log.ret = (IF sync_log.mem.set THEN sync_log.mem.rows ELSE sync_log.was)
        /\ sync_log.ret = EmptyTable <=> (~sync_log.mem.set /\ sync_log.was = EmptyTable)
        /\ sync_log.error <=> sync_log.ret = EmptyTable

\* C25's case: a sync failed on a new connection over a file that holds rows,
\* and returned them.
C25_Witness ==
    /\ sync_log.failed /\ ~sync_log.mem.set
    /\ sync_log.was # EmptyTable /\ sync_log.ret = sync_log.was

\* C27: a sync that fetched every row it asked for, run over the unchanged
\* remote table after a sync that stored only a part, leaves every remote row in
\* the mirror.
C27_CompleteSyncRepairs ==
    (~sync_log.failed /\ sync_log.complete /\ sync_log.after_partial)
    => \A n \in Orders :
          sync_log.table[n] # NoRow => mirror[n] = sync_log.table[n]

(***************************************************************************)
(* Properties of the reshaping (SpecShape)                                 *)
(***************************************************************************)
\* The row of the fetched input a row of the frame came from.
Raw(r) == sh_in[r.id]

\* C11: when the fetched rows lack an expected column, Estoque.fetch_supabase_data,
\* Pedidos.get_data_from_supabase and Pedidos_Venda.fetch_pedidos do not raise,
\* show an error message and return an empty table; no later stage ever works on
\* a frame that lacks a column.
C11_MissingColumnIsError ==
    (/\ sh_app \in {"Estoque", "Pedidos", "Pedidos_Venda"}
     /\ sh_in # <<>>
     /\ ~(ExpectedColumns \subseteq sh_cols))
    => /\ sh_state # "raised"
       /\ sh_state = "run" => sh_step = 1
       /\ sh_state = "done" => (sh_rows = <<>> /\ "error" \in sh_ui)

\* C11's case: Pedidos_Venda returned after rows without QT and PVENDA.
C11_Witness ==
    /\ sh_app = "Pedidos_Venda" /\ sh_state = "done"
    /\ sh_in # <<>> /\ sh_cols = {"DATA"}
    /\ sh_rows = <<>> /\ "error" \in sh_ui

C15_CoercionWarned ==
    (/\ sh_state = "done"
     /\ sh_app \in {"Fornecedor", "Pedidos_Venda", "Produto"}
     /\ ExpectedColumns \subseteq sh_cols)
    => \A i \in 1..Len(sh_in) :
          (sh_in[i].QT = Text \/ sh_in[i].PVENDA = Text)
          => /\ (sh_in[i].DATA = ValidDate \/ sh_app = "Pedidos_Venda")
                  => \E j \in 1..Len(sh_rows) :
                        /\ sh_rows[j].id = i
                        /\ sh_in[i].QT = Text => sh_rows[j].QT = Num(0)
                        /\ sh_in[i].PVENDA = Text => sh_rows[j].PVENDA = Num(0)
             /\ (sh_log # {} \/ "warning" \in sh_ui)

\* C16: no row of the frame returned by Estoque.fetch_supabase_data,
\* Pedidos.get_data_from_supabase and Pedidos_Venda.fetch_pedidos has a date
\* that is missing or did not parse.
C16_NoInvalidDate ==
    (sh_state = "done" /\ sh_app \in {"Estoque", "Pedidos", "Pedidos_Venda"})
    => \A i \in 1..Len(sh_rows) : sh_rows[i].DATA = ValidDate

C24_InvalidNumberIsZero ==
    (sh_app = "PaginaInicial" /\ sh_state \in {"done", "raised"})
    => \A i \in 1..Len(sh_in) :
          \E j \in 1..Len(sh_rows) :
              /\ sh_rows[j].id = i
              /\ sh_in[i].QT = Text => sh_rows[j].QT = Num(0)
              /\ sh_in[i].PVENDA = Text => sh_rows[j].PVENDA = Num(0)

(***************************************************************************)
(* Properties of a page run (SpecPage)                                     *)
(***************************************************************************)
ConfigSet == pg_url = "set" /\ pg_key = "set"

\* C12: with the configuration set and no failure, a run of Produto, Estoque or
\* Página_Inicial over a table without matching rows ends without an error
\* message and with a warning or info message.
C12_NoRowsIsNotAnError ==
    (/\ pg_pc = "end" /\ ConfigSet
     /\ pg_app \in {"Produto", "Estoque", "PaginaInicial"}
     /\ pg_t1 # "rows"
     /\ ~pg_mirror)
    => /\ "error" \notin pg_ui
       /\ pg_ui \cap {"warning", "info"} # {}

\* C13: a run of Pedidos.main never raises, and when it ends with an empty
\* result set a warning was shown.
C13_PedidosNeverRaises ==
    pg_app = "Pedidos" =>
        /\ pg_pc # "raised"
        /\ (pg_pc = "end" /\ (pg_t1 # "rows" \/ pg_t2 # "rows")) => "warning" \in pg_ui

\* C18: with the URL or the key missing or empty, Estoque, Vendedores and
\* Página_Inicial send no request, draw no data, and once past startup have
\* shown an error message.
C18_BadConfigHalts ==
    (pg_app \in {"Estoque", "Vendedores", "PaginaInicial"} /\ ~ConfigSet)
    => /\ pg_requests = 0
       /\ ~pg_rendered
       /\ pg_pc \in {"end", "stopped"} => "error" \in pg_ui

(***************************************************************************)
(* Properties of the threads of a SupabaseConnection (SpecThreads)         *)
(***************************************************************************)
\* C19: the script thread and the background thread of one SupabaseConnection
\* are never inside sync_data at the same time.
C19_NoOverlappingSync ==
    ~(th_main \in InSyncData /\ th_bg \in InSyncData)

\* C28: at most one background sync thread is alive in the process.
C28_OneBackgroundThread ==
    th_alive <= 1

(***************************************************************************)
(* Properties of the writes into the SQLite table (SpecUpsert)             *)
(***************************************************************************)
\* C26: writing the batch update_cache wrote last once more leaves the table as
\* it is, and the table never holds two rows with the same NUMPED.
C26_UpsertIdempotent ==
    /\ up_again = up_table
    /\ \A k \in Numpeds :
          RowCount([r \in UpsertRows |-> IF r.numped = k THEN up_table[r] ELSE 0]) <= 1

====
